---- MODULE Spec2Model ----
(***************************************************************************)
(* Model of automate-splunk-suppression: the summarizer (data_viz.py) and  *)
(* the synthetic data generator (synthetic_data_generator.py).            *)
(*                                                                         *)
(* Time is counted in whole days.  A timestamp is an integer day number;   *)
(* timedelta(days = n) is the integer n.  Day arithmetic is unbounded: the *)
(* model covers lookback values for which datetime.today() - timedelta is  *)
(* a representable datetime.                                               *)
(***************************************************************************)
EXTENDS Integers, Sequences, FiniteSets, TLC

VARIABLES
    pc,             \* which program runs and where it is
    today,          \* the value datetime.today() returns during the run
    df,             \* summarizer: the rows read from CSV_IN
    LOOKBACK_DAYS,  \* summarizer: global set by parse_cli
    MIN_CLUSTER,    \* summarizer: global set by parse_cli
    focus,          \* summarizer: filtered, projected rows
    summary,        \* summarizer: grouped, thresholded, sorted clusters
    stdout,         \* summarizer: lines printed
    exit_status,    \* summarizer: process exit status (-1 while running)
    rows,           \* generator: the rows argument of generate_notables
    rng,            \* generator: state of the random module's generator
    np_rng,         \* generator: state of the generator DataFrame.sample draws from
    records,        \* generator: the list of base rows
    dupe_index,     \* generator: index labels of dupe_sample (positions in records)
    dupe_sample,    \* generator: the sampled rows after the status overwrite
    out             \* generator: the data frame generate_notables returns

sumvars == <<df, LOOKBACK_DAYS, MIN_CLUSTER, focus, summary, stdout, exit_status>>
genvars == <<rows, rng, np_rng, records, dupe_index, dupe_sample, out>>
vars == <<pc, today, sumvars, genvars>>

(***************************************************************************)
(* Bounds of the model.                                                    *)
(***************************************************************************)
MaxFileRows == 3        \* summarizer: rows in the input file
MaxLookback == 2        \* summarizer: lookback_days ranges over 0..MaxLookback
MaxMinCluster == 3      \* summarizer: min_cluster ranges over -1..MaxMinCluster
MaxDelay == 1           \* summarizer: days between two runs that are compared
MaxRows == 181          \* generator: rows argument ranges over 0..MaxRows
MaxSeed == 1            \* generator: each generator's seed ranges over 0..MaxSeed

(***************************************************************************)
(* data_viz.py                                                             *)
(***************************************************************************)
LOOKBACK_DEFAULT == 30
MIN_CLUSTER_DEFAULT == 5
GROUP_COLS == <<"src", "dest", "user", "signature", "severity">>

NonEscalated == "closed without escalation"
Escalated == "closed with escalation"

\* Column values that occur in the modelled input files, each list in the
\* order Python's string comparison gives (used by the grouping's key sort).
SrcValues == <<"10.0.1.5">>
DestValues == <<"192.168.2.3">>
UserValues == <<"CORP\\user001">>
SignatureValues == <<"EICAR-TEST-FILE">>
SeverityValues == <<"high", "low">>
CategoryValues == <<"malware", "priv-esc">>
FileNameValues == <<"calc.exe">>
StatusValues == <<NonEscalated, Escalated>>

\* The day the first run starts, and the timestamps rows carry: one and two
\* days before it, so that lookbacks 0, 1, 2 put the cutoff after, on and
\* before a row's timestamp.
FirstDay == 10
TimeValues == {FirstDay - 2, FirstDay - 1}

Range(s) == {s[i] : i \in DOMAIN s}

AllRows ==
    [_time : TimeValues, src : Range(SrcValues), dest : Range(DestValues),
     signature : Range(SignatureValues), category : Range(CategoryValues),
     file_name : Range(FileNameValues), severity : Range(SeverityValues),
     user : Range(UserValues), status_label : Range(StatusValues)]

\* The rows of the modelled input files: every timestamp, severity and
\* status, and both categories for the rows closed without escalation.
RowPool ==
    {r \in AllRows :
        r.status_label = Escalated => r.category = CategoryValues[1]}

Files == UNION {[1..n -> RowPool] : n \in 0..MaxFileRows}

\* df.loc[filt, GROUP_COLS]: the five grouping columns of a row.
Project(r) ==
    [src |-> r.src, dest |-> r.dest, user |-> r.user,
     signature |-> r.signature, severity |-> r.severity]

\* Variants of filt: exclusive lower bound; status not tested; comparison
\* inverted.
FiltStrict(r, cutoff) == r._time > cutoff /\ r.status_label = NonEscalated
FiltAnyStatus(r, cutoff) == r._time >= cutoff
FiltInverted(r, cutoff) == r._time <= cutoff /\ r.status_label = NonEscalated

\* filt, line 43.
Filt(r, cutoff) == r._time >= cutoff /\ r.status_label = NonEscalated

RECURSIVE MapProject(_)
MapProject(s) ==
    IF s = <<>> THEN <<>> ELSE <<Project(Head(s))>> \o MapProject(Tail(s))

\* focus, lines 42-44.
Focus(frame, now, days) ==
    LET cutoff == now - days
    IN  MapProject(SelectSeq(frame, LAMBDA r : Filt(r, cutoff)))

Rank(list, v) == CHOOSE i \in DOMAIN list : list[i] = v

\* Lexicographic order on the grouping key, in GROUP_COLS order.
KeyRank(k) ==
    <<Rank(SrcValues, k.src), Rank(DestValues, k.dest), Rank(UserValues, k.user),
      Rank(SignatureValues, k.signature), Rank(SeverityValues, k.severity)>>

RECURSIVE LexLess(_, _)
LexLess(a, b) ==
    IF a = <<>> THEN FALSE
    ELSE IF Head(a) # Head(b) THEN Head(a) < Head(b)
    ELSE LexLess(Tail(a), Tail(b))

KeyLess(a, b) == LexLess(KeyRank(a), KeyRank(b))

RECURSIVE SortKeys(_)
SortKeys(ks) ==
    IF ks = {} THEN <<>>
    ELSE LET m == CHOOSE k \in ks : \A o \in ks \ {k} : KeyLess(k, o)
         IN  <<m>> \o SortKeys(ks \ {m})

CountOf(f, k) == Cardinality({i \in DOMAIN f : f[i] = k})

Cluster(k, n) ==
    [src |-> k.src, dest |-> k.dest, user |-> k.user,
     signature |-> k.signature, severity |-> k.severity, alert_count |-> n]

\* Stable insertion of c into a sequence sorted by alert_count descending.
RECURSIVE InsertDesc(_, _)
InsertDesc(c, s) ==
    IF s = <<>> THEN <<c>>
    ELSE IF Head(s).alert_count >= c.alert_count
         THEN <<Head(s)>> \o InsertDesc(c, Tail(s))
         ELSE <<c>> \o s

\* Stable sort by alert_count descending.
RECURSIVE SortByCount(_)
SortByCount(s) ==
    IF s = <<>> THEN <<>>
    ELSE InsertDesc(s[Len(s)], SortByCount(SubSeq(s, 1, Len(s) - 1)))

RECURSIVE Reverse(_)
Reverse(s) == IF s = <<>> THEN <<>> ELSE Reverse(Tail(s)) \o <<Head(s)>>

\* Variant of sort_values: ascending=True.
SortValuesAscending(s) == Reverse(SortByCount(s))

\* sort_values("alert_count", ascending=False), line 55.
SortValues(s) == SortByCount(s)

\* value_counts().reset_index(name="alert_count"), lines 52-53: one row per
\* distinct key, in key order, then ordered by count descending.
RECURSIVE CountAll(_, _)
CountAll(f, ks) ==
    IF ks = <<>> THEN <<>>
    ELSE <<Cluster(Head(ks), CountOf(f, Head(ks)))>> \o CountAll(f, Tail(ks))

ValueCounts(f) == SortByCount(CountAll(f, SortKeys(Range(f))))

\* Variants of the query: strict comparison; comparison inverted.
QueryStrict(s, m) == SelectSeq(s, LAMBDA c : c.alert_count > m)
QueryInverted(s, m) == SelectSeq(s, LAMBDA c : c.alert_count <= m)

\* query("alert_count >= @MIN_CLUSTER"), line 54.
Query(s, m) == SelectSeq(s, LAMBDA c : c.alert_count >= m)

\* summary, lines 51-55.
Summary(f, m) == SortValues(Query(ValueCounts(f), m))

Line(text, num, table) == [text |-> text, num |-> num, table |-> table]

NoAlertsLine == Line("No matching alerts in window; nothing to report.", <<>>, <<>>)
NoClustersLine(m) == Line("No clusters >= {MIN_CLUSTER} alerts. Try lowering MIN_CLUSTER.", <<m>>, <<>>)
HeaderLine == Line("Duplicate alert clusters (non-escalated)", <<>>, <<>>)
TableLine(s) == Line("summary.to_string(index=False)", <<>>, s)

\* Variant of the branch: the first early exit is missing.
OutcomeNoEarlyExit(f, m) ==
    LET s == Summary(f, m)
    IN  IF s = <<>>
        THEN [at |-> "exit_no_clusters", summary |-> s,
              stdout |-> <<NoClustersLine(m)>>]
        ELSE [at |-> "end_of_main", summary |-> s,
              stdout |-> <<HeaderLine, TableLine(s)>>]

\* The branch main takes after the filter, lines 46-63: where the process
\* ends, the summary it computed (none on the early exit) and what it printed.
Outcome(f, m) ==
    LET s == Summary(f, m)
    IN  IF f = <<>>
        THEN [at |-> "exit_no_alerts", summary |-> <<>>,
              stdout |-> <<NoAlertsLine>>]
        ELSE IF s = <<>>
        THEN [at |-> "exit_no_clusters", summary |-> s,
              stdout |-> <<NoClustersLine(m)>>]
        ELSE [at |-> "end_of_main", summary |-> s,
              stdout |-> <<HeaderLine, TableLine(s)>>]

\* The whole output of one run of main on (rows, now, days, m).
Output(frame, now, days, m) == Outcome(Focus(frame, now, days), m).stdout

\* main(), lines 36-63, with parse_cli's arguments days and m.
main(days, m) ==
    /\ pc = "summarizer"
    /\ LOOKBACK_DAYS' = days
    /\ MIN_CLUSTER' = m
    /\ focus' = Focus(df, today, days)
    /\ \E o \in {Outcome(focus', m)} :
          /\ summary' = o.summary
          /\ stdout' = o.stdout
          /\ pc' = o.at
    /\ exit_status' = 0
    /\ UNCHANGED <<today, df, genvars>>

InitSum ==
    /\ pc = "summarizer"
    /\ today = FirstDay
    /\ df \in Files
    /\ LOOKBACK_DAYS = LOOKBACK_DEFAULT
    /\ MIN_CLUSTER = MIN_CLUSTER_DEFAULT
    /\ focus = <<>>
    /\ summary = <<>>
    /\ stdout = <<>>
    /\ exit_status = -1
    /\ rows = 0
    /\ rng = 0
    /\ np_rng = 0
    /\ records = <<>>
    /\ dupe_index = <<>>
    /\ dupe_sample = <<>>
    /\ out = <<>>

\* The arguments parse_cli reads: int(sys.argv[2]) and int(sys.argv[3]).
LookbackArgs == 0..MaxLookback
MinClusterArgs == -1..MaxMinCluster

NextSum == \E days \in LookbackArgs, m \in MinClusterArgs : main(days, m)

SpecSum == InitSum /\ [][NextSum]_vars

(***************************************************************************)
(* synthetic_data_generator.py                                             *)
(***************************************************************************)
NumDays == 90
\* PROOF_DUPLICATE_RATIO = 0.05, as a percentage.
DuplicatePercent == 5
\* num_addresses of a /16 network.
NumAddresses == 65536
NumUsers == 200

SIGNATURES ==
    <<"EICAR-TEST-FILE", "Meterpreter Beacon", "Cobalt Strike Loader",
      "Unknown Hash Hit", "Suspicious PowerShell", "Ransomware Behaviour">>
CATEGORIES ==
    <<"malware", "command-and-control", "lateral-movement",
      "priv-esc", "persistence", "exfiltration">>
FILENAMES ==
    <<"calc.exe", "svchost.exe", "powershell.exe", "runme.tmp",
      "install.ps1", "invoice.docx", "setup.msi">>
SEVERITIES == <<"low", "medium", "high", "critical">>
SeverityWeights == <<4, 4, 2, 1>>
STATUSES == <<NonEscalated, Escalated>>
\* STATUS_WEIGHTS 0.8 and 0.2, in tenths.
StatusWeights == <<8, 2>>

\* A pseudo-random generator: its state is a position in the stream its
\* seed selects; a draw reads the stream there and moves one position on.
\* The seed is unknown to the program; every draw after it is determined.
StreamAt(g) == ((((g + 1) * (g + 40503)) % 65537) * 75) % 65537
NextRand(g) == g + 1
SeedSpacing == 1000

\* random.randint(lo, hi): the value drawn and the generator's next state.
RandInt(g, lo, hi) == [v |-> lo + (StreamAt(g) % (hi - lo + 1)), g |-> NextRand(g)]

\* random.choice(list).
Choice(g, list) ==
    LET d == RandInt(g, 1, Len(list)) IN [v |-> list[d.v], g |-> d.g]

RECURSIVE SumSeq(_)
SumSeq(w) == IF w = <<>> THEN 0 ELSE Head(w) + SumSeq(Tail(w))

RECURSIVE Bisect(_, _, _)
Bisect(w, u, i) == IF u < w[i] THEN i ELSE Bisect(w, u - w[i], i + 1)

\* random.choices(list, weights=w)[0].
Choices(g, list, w) ==
    LET d == RandInt(g, 0, SumSeq(w) - 1)
    IN  [v |-> list[Bisect(w, d.v, 1)], g |-> d.g]

\* random_ip(net), lines 50-53: the address as its four octets.
random_ip(a, b, g) ==
    LET d == RandInt(g, 1, NumAddresses - 2)
    IN  [v |-> <<a, b, d.v \div 256, d.v % 256>>, g |-> d.g]

\* synth_row(day_offset), lines 56-70: the row and the generator's next state.
synth_row(day_offset, g) ==
    LET s  == random_ip(10, 0, g)
        d  == random_ip(192, 168, s.g)
        sg == Choice(d.g, SIGNATURES)
        c  == Choice(sg.g, CATEGORIES)
        f  == Choice(c.g, FILENAMES)
        sv == Choices(f.g, SEVERITIES, SeverityWeights)
        u  == RandInt(sv.g, 1, NumUsers)
        st == Choices(u.g, STATUSES, StatusWeights)
    IN  [row |-> [_time |-> today - day_offset, src |-> s.v, dest |-> d.v,
                  signature |-> sg.v, category |-> c.v, file_name |-> f.v,
                  severity |-> sv.v, user |-> <<"CORP\\user", u.v>>,
                  status_label |-> st.v],
         g |-> st.g]

\* per_day, line 79: rows // 90 or 1.
PerDay(n) == IF n \div NumDays # 0 THEN n \div NumDays ELSE 1

\* remainder, line 80.
Remainder(n) == n - PerDay(n) * NumDays

\* Draws of one synth_row call; the remainder loop draws the day first.
RowDraws == 8

\* The loop over days, lines 84-86: per_day rows for each offset 0..89, in
\* order; row i reads the stream RowDraws * (i - 1) positions on.
DayLoop(per_day, g) ==
    [recs |-> [i \in 1..(per_day * NumDays) |->
                  synth_row((i - 1) \div per_day, g + RowDraws * (i - 1)).row],
     g |-> g + RowDraws * per_day * NumDays]

\* The remainder loop, lines 89-90: range(remainder) is empty when
\* remainder <= 0.
RemainderLoop(left, g) ==
    LET n == IF left <= 0 THEN 0 ELSE left
    IN  [recs |-> [i \in 1..n |->
                      LET at == g + (RowDraws + 1) * (i - 1)
                      IN  synth_row(RandInt(at, 0, NumDays - 1).v, at + 1).row],
         g |-> g + (RowDraws + 1) * n]

\* records, lines 79-90.
BuildRecords(n, g) ==
    LET fixed == DayLoop(PerDay(n), g)
        extra == RemainderLoop(Remainder(n), fixed.g)
    IN  [recs |-> fixed.recs \o extra.recs, g |-> extra.g]

\* dupe_count, line 95: int(rows * 0.05) for rows >= 0.
DupeCount(n) == (n * DuplicatePercent) \div 100

RemoveIndex(s, p) == SubSeq(s, 1, p - 1) \o SubSeq(s, p + 1, Len(s))

\* DataFrame.sample(k), replace=False: k positions drawn from pool without
\* replacement, in the order drawn.
RECURSIVE SampleIndex(_, _, _, _)
SampleIndex(pool, k, g, acc) ==
    IF k = 0 THEN [idx |-> acc, g |-> g]
    ELSE LET d == RandInt(g, 1, Len(pool))
         IN  SampleIndex(RemoveIndex(pool, d.v), k - 1, d.g, Append(acc, pool[d.v]))

Positions(n) == [i \in 1..n |-> i]

\* Variant of the overwrite: the sampled row keeps its status.
KeepStatus(r) == r

\* dupe_sample["status_label"] = "closed without escalation", line 98.
ForceStatus(r) == [r EXCEPT !.status_label = NonEscalated]

\* The positions 1..n in key order (equal keys in position order): the
\* result's r-th entry is the position whose key comes r-th.
ArgSort(key) ==
    LET n == Len(key)
    IN  CHOOSE p \in
            {[r \in 1..n |-> CHOOSE i \in 1..n : rank[i] = r] :
                rank \in {[i \in 1..n |->
                    1 + Cardinality({j \in 1..n :
                            key[j] < key[i] \/ (key[j] = key[i] /\ j < i)})]}} :
            TRUE

\* A random permutation of 1..n: position i draws a key from the stream and
\* the positions are put in key order.
Permutation(n, g) ==
    CHOOSE p \in {ArgSort(key) : key \in {[i \in 1..n |-> StreamAt(g + i - 1)]}} :
        TRUE

\* Variant of the shuffle: the first row is repeated in place of the last.
ShuffleDroppingRow(frame, g) ==
    CHOOSE o \in {[i \in 1..Len(f) |-> f[p[IF i = Len(f) THEN 1 ELSE i]]] :
                    f \in {frame}, p \in {Permutation(Len(frame), g)}} : TRUE

\* df.sample(frac=1).reset_index(drop=True), line 101.
Shuffle(frame, g) ==
    CHOOSE o \in {[i \in 1..Len(f) |-> f[p[i]]] :
                    f \in {frame}, p \in {Permutation(Len(frame), g)}} : TRUE

\* generate_notables(rows), lines 73-101.
generate_notables ==
    /\ pc = "generator"
    /\ records' = BuildRecords(rows, rng).recs
    /\ rng' = BuildRecords(rows, rng).g
    /\ dupe_index' = IF DupeCount(rows) # 0
                     THEN SampleIndex(Positions(Len(records')), DupeCount(rows),
                                      np_rng, <<>>).idx
                     ELSE <<>>
    /\ dupe_sample' = [i \in 1..Len(dupe_index') |->
                          ForceStatus(records'[dupe_index'[i]])]
    /\ out' = Shuffle(records' \o dupe_sample', np_rng + Len(dupe_index'))
    /\ np_rng' = np_rng + Len(dupe_index') + Len(out')
    /\ pc' = "returned"
    /\ UNCHANGED <<today, rows, sumvars>>

InitGen ==
    /\ pc = "generator"
    /\ today = FirstDay
    /\ rows \in 0..MaxRows
    /\ rng \in {SeedSpacing * s : s \in 0..MaxSeed}
    /\ np_rng \in {SeedSpacing * s : s \in 0..MaxSeed}
    /\ records = <<>>
    /\ dupe_index = <<>>
    /\ dupe_sample = <<>>
    /\ out = <<>>
    /\ df = <<>>
    /\ LOOKBACK_DAYS = LOOKBACK_DEFAULT
    /\ MIN_CLUSTER = MIN_CLUSTER_DEFAULT
    /\ focus = <<>>
    /\ summary = <<>>
    /\ stdout = <<>>
    /\ exit_status = -1

NextGen == generate_notables

SpecGen == InitGen /\ [][NextGen]_vars

(***************************************************************************)
(* Properties of the generator.                                            *)
(***************************************************************************)
GenDone == pc = "returned"

SameGroup(a, b) ==
    /\ a.src = b.src
    /\ a.dest = b.dest
    /\ a.user = b.user
    /\ a.signature = b.signature
    /\ a.severity = b.severity

\* Positions of the rows closed without escalation that agree with some
\* other row on the five grouping columns.
DuplicateRows(frame) ==
    {i \in DOMAIN frame :
        /\ frame[i].status_label = NonEscalated
        /\ \E j \in DOMAIN frame : j # i /\ SameGroup(frame[i], frame[j])}

\* C8: the returned dataset holds at least floor(N * r) rows closed without
\* escalation that agree with another row on the five grouping columns.
C8_InjectedDuplicates ==
    GenDone =>
        Cardinality(DuplicateRows(out)) >= (rows * DuplicatePercent) \div 100

\* C8 witness: duplicates were requested and one of the sampled base rows
\* was closed with escalation before its copy's status was overwritten.
C8_Witness ==
    /\ GenDone
    /\ (rows * DuplicatePercent) \div 100 >= 1
    /\ \E i \in DOMAIN dupe_index :
          records[dupe_index[i]].status_label = Escalated

RowsOnDay(frame, offset) ==
    Cardinality({i \in DOMAIN frame : frame[i]._time = today - offset})

\* C9 as stated: for every N >= 0 the base set has exactly N rows, at least
\* N div 90 of them on each of the 90 day offsets.
C9_Original ==
    GenDone =>
        /\ Len(records) = rows
        /\ \A offset \in 0..(NumDays - 1) :
              RowsOnDay(records, offset) >= rows \div NumDays
        /\ \A i \in DOMAIN records :
              today - records[i]._time \in 0..(NumDays - 1)

Occurrences(frame, r) == Cardinality({i \in DOMAIN frame : frame[i] = r})

\* C10: the returned dataset is a permutation of the base rows, unchanged,
\* together with exactly k = floor(N * r) appended rows; the appended rows
\* are copies of k pairwise distinct base rows, equal to them in every field
\* but status_label, which is "closed without escalation".
C10_InjectionFrame ==
    GenDone =>
        /\ Len(dupe_sample) = (rows * DuplicatePercent) \div 100
        /\ Len(dupe_index) = Len(dupe_sample)
        /\ \A i \in DOMAIN dupe_index : dupe_index[i] \in DOMAIN records
        /\ \A i, j \in DOMAIN dupe_index :
              i # j => dupe_index[i] # dupe_index[j]
        /\ \A i \in DOMAIN dupe_sample :
              dupe_sample[i] =
                  [records[dupe_index[i]] EXCEPT !.status_label = NonEscalated]
        /\ Len(out) = Len(records) + Len(dupe_sample)
        /\ \A r \in Range(out) \cup Range(records) \cup Range(dupe_sample) :
              Occurrences(out, r)
                  = Occurrences(records, r) + Occurrences(dupe_sample, r)

\* C10 witness: two or more rows were appended, one of them a copy of a base
\* row closed with escalation, and the shuffle moved the rows.
C10_Witness ==
    /\ GenDone
    /\ Len(dupe_sample) >= 2
    /\ \E i \in DOMAIN dupe_index :
          dupe_sample[i] # records[dupe_index[i]]
    /\ out # records \o dupe_sample

(***************************************************************************)
(* Properties of the summarizer.                                           *)
(***************************************************************************)
SumDone == pc \in {"exit_no_alerts", "exit_no_clusters", "end_of_main"}

\* The clusters a run's output reports: the table's rows, none otherwise.
Reported(printed) == IF Len(printed) = 2 THEN printed[2].table ELSE <<>>

AllKeys == {Project(r) : r \in RowPool}

KeyOf(c) ==
    [src |-> c.src, dest |-> c.dest, user |-> c.user,
     signature |-> c.signature, severity |-> c.severity]

\* Rows of the file with key k, inside the window, closed without escalation.
Matching(frame, now, days, k) ==
    {i \in DOMAIN frame : /\ Project(frame[i]) = k
                         /\ frame[i]._time >= now - days
                         /\ frame[i].status_label = NonEscalated}

NumMatching(frame, now, days, k) == Cardinality(Matching(frame, now, days, k))

\* C1: a key is reported iff its number of matching rows is >= min_cluster
\* and > 0; it is then reported exactly once, with alert_count that number.
C1_ClusterIffCount ==
    SumDone =>
        LET rep == Reported(stdout)
        IN  /\ \A k \in AllKeys :
                LET n == NumMatching(df, today, LOOKBACK_DAYS, k)
                    at == {i \in DOMAIN rep : KeyOf(rep[i]) = k}
                IN  IF n >= MIN_CLUSTER /\ n > 0
                    THEN /\ Cardinality(at) = 1
                         /\ \A i \in at : rep[i].alert_count = n
                    ELSE at = {}
            /\ \A i \in DOMAIN rep : KeyOf(rep[i]) \in AllKeys

\* C1 witness: a reported cluster of two or more rows that differ in _time
\* or category, while another key has matching rows but is not reported.
C1_Witness ==
    /\ SumDone
    /\ \E c \in Range(Reported(stdout)) :
          /\ c.alert_count >= 2
          /\ \E i, j \in Matching(df, today, LOOKBACK_DAYS, KeyOf(c)) :
                df[i]._time # df[j]._time \/ df[i].category # df[j].category
    /\ \E k \in AllKeys :
          /\ NumMatching(df, today, LOOKBACK_DAYS, k) > 0
          /\ \A c \in Range(Reported(stdout)) : KeyOf(c) # k

\* The file without the rows at the positions in S.
RECURSIVE RemoveAt(_, _, _)
RemoveAt(frame, S, i) ==
    IF i > Len(frame) THEN <<>>
    ELSE (IF i \in S THEN <<>> ELSE <<frame[i]>>) \o RemoveAt(frame, S, i + 1)

EscalatedAt(frame) == {i \in DOMAIN frame : frame[i].status_label = Escalated}

\* C2: removing any set of "closed with escalation" rows from the file (or,
\* read backwards, adding them) leaves the reported clusters and counts
\* unchanged.
C2_EscalatedIgnored ==
    SumDone =>
        \A S \in SUBSET EscalatedAt(df) :
            Range(Reported(Output(RemoveAt(df, S, 1), today, LOOKBACK_DAYS, MIN_CLUSTER)))
                = Range(Reported(stdout))

\* C2 witness: a cluster is reported and the file holds an escalated row
\* with that cluster's key inside the window.
C2_Witness ==
    /\ SumDone
    /\ \E c \in Range(Reported(stdout)) : \E i \in EscalatedAt(df) :
          /\ Project(df[i]) = KeyOf(c)
          /\ df[i]._time >= today - LOOKBACK_DAYS

\* C3 as stated: a second run on the same file with the same parameters,
\* started any number of days later, prints what the first printed.
C3_Original ==
    SumDone =>
        \A d \in 0..MaxDelay :
            Output(df, today + d, LOOKBACK_DAYS, MIN_CLUSTER) = stdout

\* No non-escalated row lies between the two runs' cutoffs.
SameWindow(frame, now, later, days) ==
    \A i \in DOMAIN frame :
        ~ (/\ frame[i].status_label = NonEscalated
           /\ now - days <= frame[i]._time
           /\ frame[i]._time < later - days)

\* C3 amended: a second run on the same file with the same parameters prints
\* what the first printed, provided no "closed without escalation" row has
\* its _time between the first run's cutoff (inclusive) and the second
\* run's cutoff (exclusive).
C3_IdempotentSameWindow ==
    SumDone =>
        \A d \in 0..MaxDelay :
            SameWindow(df, today, today + d, LOOKBACK_DAYS) =>
                Output(df, today + d, LOOKBACK_DAYS, MIN_CLUSTER) = stdout

\* C3 witness: a table was printed, and a run d >= 1 days later sees the
\* same window, with a counted row exactly on the later run's cutoff.
C3_Witness ==
    /\ SumDone
    /\ Reported(stdout) # <<>>
    /\ \E d \in 1..MaxDelay :
          /\ SameWindow(df, today, today + d, LOOKBACK_DAYS)
          /\ \E i \in DOMAIN df : /\ df[i]._time = today + d - LOOKBACK_DAYS
                                  /\ df[i].status_label = NonEscalated

\* C4: with a threshold m2 >= min_cluster on the same input, time and
\* window, the reported clusters (with their counts) are a subset of those
\* reported with min_cluster, and no more in number.
C4_ThresholdMonotone ==
    SumDone =>
        \A m2 \in MIN_CLUSTER..MaxMinCluster :
            LET rep2 == Reported(Output(df, today, LOOKBACK_DAYS, m2))
            IN  /\ Range(rep2) \subseteq Range(Reported(stdout))
                /\ Len(rep2) <= Len(Reported(stdout))

\* C4 witness: a higher threshold drops some but not all reported clusters.
C4_Witness ==
    /\ SumDone
    /\ \E m2 \in MIN_CLUSTER..MaxMinCluster :
          LET rep2 == Reported(Output(df, today, LOOKBACK_DAYS, m2))
          IN  rep2 # <<>> /\ Len(rep2) < Len(Reported(stdout))

PassesAt(frame, now, days) ==
    {i \in DOMAIN frame : /\ frame[i]._time >= now - days
                         /\ frame[i].status_label = NonEscalated}

\* C5: with a window d2 >= lookback_days on the same input, time and
\* threshold, every row that passed the filter still passes, and at least
\* as many clusters are reported.
C5_WindowMonotone ==
    SumDone =>
        \A d2 \in LOOKBACK_DAYS..MaxLookback :
            /\ Len(focus) <= Len(Focus(df, today, d2))
            /\ \A i \in DOMAIN df :
                  Filt(df[i], today - LOOKBACK_DAYS) => Filt(df[i], today - d2)
            /\ Len(Reported(stdout))
                  <= Len(Reported(Output(df, today, d2, MIN_CLUSTER)))

\* C5 witness: a wider window lets more rows pass and reports more clusters.
C5_Witness ==
    /\ SumDone
    /\ Reported(stdout) # <<>>
    /\ \E d2 \in LOOKBACK_DAYS..MaxLookback :
          /\ Len(focus) < Len(Focus(df, today, d2))
          /\ Len(Reported(stdout))
                < Len(Reported(Output(df, today, d2, MIN_CLUSTER)))

SomeRowPasses == PassesAt(df, today, LOOKBACK_DAYS) # {}

SurvivingKeys ==
    {k \in AllKeys : /\ NumMatching(df, today, LOOKBACK_DAYS, k) > 0
                     /\ NumMatching(df, today, LOOKBACK_DAYS, k) >= MIN_CLUSTER}

C7_SortedDescending ==
    SumDone =>
        LET rep == Reported(stdout)
        IN  \A i \in 1..(Len(rep) - 1) :
                rep[i].alert_count >= rep[i + 1].alert_count

\* C7 witness: two clusters are printed, the larger first although its key
\* sorts after the smaller one's.
C7_Witness ==
    /\ SumDone
    /\ LET rep == Reported(stdout)
       IN  /\ Len(rep) >= 2
           /\ rep[1].alert_count > rep[2].alert_count
           /\ KeyLess(KeyOf(rep[2]), KeyOf(rep[1]))

====
